---------------------------- MODULE Spec2Model ----------------------------
(***************************************************************************)
(* A model of the bookstore backend src/server.js: the Express handlers    *)
(* register, login, send-otp, verify-otp, create-order and verify-payment, *)
(* the auth middleware, the in-memory OTP store and the two MongoDB        *)
(* collections (User, Purchase).                                           *)
(*                                                                         *)
(* Scheduling.  Node runs one callback at a time, to completion: the code  *)
(* of a handler between two awaits is one atomic step.  Each action below  *)
(* is either the arrival of a request (the handler's code up to its first  *)
(* await on a collaborator), or the completion of the awaited collaborator *)
(* call (the store's atomic operation on one document, the SMS dispatch,   *)
(* the gateway call) followed by the handler's code up to the next such    *)
(* await.  The awaits on bcrypt touch no shared state and are folded into  *)
(* the step they belong to.  Steps of different requests interleave freely.*)
(*                                                                         *)
(* A rejected await is caught by no code of server.js: the handler stops    *)
(* there and writes no response (pc = "rejected").                         *)
(*                                                                         *)
(* The field at of a register, login or verify-otp request is the value of *)
(* Date.now() when its token was signed.                                   *)
(*                                                                         *)
(* Documents.  _id is an ObjectId the handler generates when it constructs *)
(* the document; it is modelled by the index of the request that built it. *)
(* The User field name, the Purchase fields address and date and the       *)
(* receipt of a gateway order take no part in any decision of the code and *)
(* are left out.                                                           *)
(*                                                                         *)
(* Time.  now is Date.now() in ticks.  jsonwebtoken keeps iat and exp in   *)
(* whole seconds, floor(Date.now() / 1000): TicksPerSec ticks make one     *)
(* second.  The durations are scaled down: OtpTtl stands for 5*60*1000 ms  *)
(* and TokenTtl for '7d' in seconds.                                       *)
(*                                                                         *)
(* Cryptography.  HMAC-SHA256 and the JWT signature are idealised: the     *)
(* digest is an injective encoding of (key, message) cut to DigestLen hex  *)
(* digits, and a token verifies iff it was signed with JWT_SECRET.         *)
(***************************************************************************)
EXTENDS Integers, Sequences, FiniteSets, TLC

VARIABLES
    users,      \* the User collection, in insertion order
    purchases,  \* the Purchase collection, in insertion order
    otpStore,   \* let otpStore = {}: mobile -> <<>> or <<[otp, expires, by]>>
    orders,     \* the orders opened at the payment gateway
    reqs,       \* every request received so far, with its handler's position
    now         \* Date.now()

vars == <<users, purchases, otpStore, orders, reqs, now>>

---------------------------------------------------------------------------
(* Bounds of the model *)

MaxReq == 3
MaxTime == 3
MaxIdLen == 1

(* Program constants, scaled *)

OtpTtl == 2
TokenTtl == 1
TicksPerSec == 2
DigestLen == 2

---------------------------------------------------------------------------
(* Values *)

NoVal == "undefined"

Emails == {"e1"}
Mobiles == {"m1", "m2"}
Passwords == {"pw1", "pw2"}
OtpCodes == {"100000", "999999"}
IdChars == {"a", "|"}
HexDigits == <<"0", "1", "2", "3", "4", "5", "6", "7",
               "8", "9", "a", "b", "c", "d", "e", "f">>

JWT_SECRET == "JWT_SECRET"
RAZORPAY_KEY_SECRET == "RAZORPAY_KEY_SECRET"

RECURSIVE SeqsUpTo(_, _)
SeqsUpTo(S, n) ==
    IF n = 0 THEN {<< >>}
    ELSE LET shorter == SeqsUpTo(S, n - 1)
         IN  shorter \cup {Append(s, c) : s \in shorter, c \in S}

Range(f) == {f[i] : i \in DOMAIN f}

Min(S) == CHOOSE x \in S : \A y \in S : x <= y

---------------------------------------------------------------------------
(* bcryptjs *)

\* bcrypt.hash(password, 10): a salted one-way hash, never the plaintext.
BcryptHash(password) == <<"$2a$10$", password>>

\* bcrypt.compare(password, hash), for a string password and a stored hash.
BcryptCompare(password, hash) == hash = BcryptHash(password)

---------------------------------------------------------------------------
(* crypto.createHmac('sha256', key).update(msg).digest('hex') *)

CharCode(c) == IF c = "a" THEN 1 ELSE 2

\* The message read as a numeral with the digits 1..2: one number per message.
RECURSIVE MsgNum(_)
MsgNum(msg) ==
    IF msg = << >> THEN 0
    ELSE MsgNum(SubSeq(msg, 1, Len(msg) - 1)) * Cardinality(IdChars)
         + CharCode(msg[Len(msg)])

KeyNum(key) == IF key = RAZORPAY_KEY_SECRET THEN 7 ELSE 11

RECURSIVE Pow(_, _)
Pow(b, n) == IF n = 0 THEN 1 ELSE b * Pow(b, n - 1)

ToHex(n) ==
    [i \in 1..DigestLen |->
        HexDigits[((n \div Pow(Len(HexDigits), DigestLen - i)) % Len(HexDigits)) + 1]]

Hmac(key, msg) ==
    ToHex((KeyNum(key) + MsgNum(msg)) % Pow(Len(HexDigits), DigestLen))

\* The signed string without the payment id.
SignedMessageOrderOnly(orderId, paymentId) == orderId

\* The signed string without its separator.
SignedMessageNoSeparator(orderId, paymentId) == orderId \o paymentId

\* `${razorpay_order_id}|${razorpay_payment_id}`
SignedMessage(orderId, paymentId) == orderId \o <<"|">> \o paymentId

\* The comparison stopping after the first hex digit.
VerifyCallbackFirstDigit(orderId, paymentId, signature) ==
    /\ signature # << >>
    /\ Hmac(RAZORPAY_KEY_SECRET, orderId \o <<"|">> \o paymentId)[1] = signature[1]

\* sign !== razorpay_signature is the rejection; the comparison never throws.
VerifyCallback(orderId, paymentId, signature) ==
    Hmac(RAZORPAY_KEY_SECRET, SignedMessage(orderId, paymentId)) = signature

---------------------------------------------------------------------------
(* jsonwebtoken *)

Seconds(t) == t \div TicksPerSec

\* jwt.sign({ id }, JWT_SECRET, { expiresIn: '7d' }) at time t
JwtSign(id, t) ==
    [id |-> id, iat |-> Seconds(t), exp |-> Seconds(t) + TokenTtl, key |-> JWT_SECRET]

\* The expiry check letting the second exp itself through.
JwtVerifiesLate(token, t) ==
    /\ token.key = JWT_SECRET
    /\ ~(Seconds(t) > token.exp)

\* jwt.verify(token, JWT_SECRET) at time t does not throw
JwtVerifies(token, t) ==
    /\ token.key = JWT_SECRET
    /\ ~(Seconds(t) >= token.exp)

\* A header is << >> (absent), <<"Bearer ">> or <<"Bearer ", token>>.
\* req.header('Authorization')?.replace('Bearer ', '')
BearerToken(hdr) == IF hdr = << >> THEN << >> ELSE Tail(hdr)

\* The middleware checking the token's signature and not its expiry.
AuthResponseNoExpiry(hdr, t) ==
    IF hdr = << >> \/ Len(hdr) = 1 THEN <<[status |-> 401, error |-> "No token"]>>
    ELSE IF hdr[2].key # JWT_SECRET
         THEN <<[status |-> 401, error |-> "Bad token"]>>
         ELSE << >>

\* The auth middleware: the response it writes, or << >> when it calls next().
AuthResponse(hdr, t) ==
    IF BearerToken(hdr) = << >> THEN <<[status |-> 401, error |-> "No token"]>>
    ELSE IF ~JwtVerifies(BearerToken(hdr)[1], t)
         THEN <<[status |-> 401, error |-> "Bad token"]>>
         ELSE << >>

\* req.userId = decoded.id
AuthUserId(hdr) == BearerToken(hdr)[1].id

---------------------------------------------------------------------------
(* The store: mongoose queries on the two collections *)

\* The first document at one of the positions hits, << >> when there is none.
First(hits) == IF hits = {} THEN << >> ELSE <<users[Min(hits)]>>

\* User.findOne({ $or: [{ email: id }, { mobile: id }] })
FindByEmailOrMobile(id) ==
    First({i \in DOMAIN users : users[i].email = id \/ users[i].mobile = id})

\* User.findOne({ mobile })
FindByMobile(mobile) ==
    First({i \in DOMAIN users : users[i].mobile = mobile})

\* updateOne with a filter that every User matches: the first one is updated.
UpdateOneUnfiltered(id) ==
    IF users = << >> THEN users
    ELSE [users EXCEPT ![1].isNewUser = FALSE]

\* User.updateOne({ _id: id }, { isNewUser: false })
UpdateOne(id) ==
    LET hits == {i \in DOMAIN users : users[i]._id = id}
    IN  IF hits = {} THEN users
        ELSE [users EXCEPT ![Min(hits)].isNewUser = FALSE]

\* new User({ ... }): isNewUser defaults to true, purchases to [].
NewUser(id, email, mobile, password) ==
    [_id |-> id, email |-> email, mobile |-> mobile, password |-> password,
     isNewUser |-> TRUE, purchases |-> << >>]

\* new Purchase({ user, items, total, paymentId, address })
NewPurchase(id, userId, items, total, paymentId) ==
    [_id |-> id, user |-> userId, items |-> items, total |-> total,
     paymentId |-> paymentId]

---------------------------------------------------------------------------
(* Requests *)

Awaiting == {"save", "find", "update", "sms", "order"}

Answered(r) == reqs[r].res # << >>

NextId == Len(reqs) + 1

Accept(req) ==
    /\ Len(reqs) < MaxReq
    /\ reqs' = Append(reqs, req)

Step(r, pc, res) == [reqs EXCEPT ![r].pc = pc, ![r].res = res]

\* The response that carries a fresh token; at records when it was signed.
Signed(r, res) == [reqs EXCEPT ![r].pc = "done", ![r].res = res, ![r].at = now]

Ok(body) == <<[status |-> 200] @@ body>>
Err(status, error) == <<[status |-> status, error |-> error]>>

Init ==
    /\ users = << >>
    /\ purchases = << >>
    /\ otpStore = [m \in Mobiles |-> << >>]
    /\ orders = << >>
    /\ reqs = << >>
    /\ now = 0

\* The clock advances.
Tick ==
    /\ now < MaxTime
    /\ now' = now + 1
    /\ UNCHANGED <<users, purchases, otpStore, orders, reqs>>

\* A rejected SMS dispatch that takes back the challenge its request wrote.
RejectDropsChallenge(r) ==
    /\ reqs[r].pc \in Awaiting
    /\ reqs' = Step(r, "rejected", << >>)
    /\ otpStore' = IF reqs[r].op = "send-otp"
                   THEN [otpStore EXCEPT ![reqs[r].mobile] = << >>]
                   ELSE otpStore
    /\ UNCHANGED <<users, purchases, orders, now>>

\* An awaited collaborator call (store, SMS, gateway) rejects: nothing in
\* server.js catches it, and the handler ends without writing a response.
Reject(r) ==
    /\ reqs[r].pc \in Awaiting
    /\ reqs' = Step(r, "rejected", << >>)
    /\ UNCHANGED <<users, purchases, otpStore, orders, now>>

\* The other outcome of a rejected await.  The handler's promise rejects in
\* both; what the framework does with it depends on the release of express that
\* is installed, which the repository does not fix: one that ignores the
\* promise a handler returns leaves the request unanswered (Reject), one that
\* forwards the rejection to its default error handler answers 500.
RejectForwarded(r) ==
    /\ reqs[r].pc \in Awaiting
    /\ reqs' = Step(r, "rejected", Err(500, "Internal Server Error"))
    /\ UNCHANGED <<users, purchases, otpStore, orders, now>>

---------------------------------------------------------------------------
(* POST /api/register *)

\* bcrypt.hash rejects when the password is not a string.
Register(email, mobile, password) ==
    /\ Accept([op |-> "register",
               pc |-> IF password = NoVal THEN "rejected" ELSE "save",
               user |-> NewUser(NextId, email, mobile,
                                IF password = NoVal THEN << >>
                                ELSE BcryptHash(password)),
               at |-> 0, res |-> << >>])
    /\ UNCHANGED <<users, purchases, otpStore, orders, now>>

\* await user.save(); then the token is signed and the response written.
RegisterSave(r) ==
    /\ reqs[r].op = "register" /\ reqs[r].pc = "save"
    /\ users' = Append(users, reqs[r].user)
    /\ reqs' = Signed(r, Ok([token |-> JwtSign(reqs[r].user._id, now),
                              isNewUser |-> TRUE]))
    /\ UNCHANGED <<purchases, otpStore, orders, now>>

---------------------------------------------------------------------------
(* POST /api/login *)

Login(id, password) ==
    /\ Accept([op |-> "login", pc |-> "find", id |-> id,
               password |-> password, at |-> 0, res |-> << >>])
    /\ UNCHANGED <<users, purchases, otpStore, orders, now>>

\* await User.findOne(...), then bcrypt.compare, which rejects when the
\* stored hash is not a string.
LoginFind(r) ==
    /\ reqs[r].op = "login" /\ reqs[r].pc = "find"
    /\ LET found == FindByEmailOrMobile(reqs[r].id)
       IN  reqs' =
             IF found = << >> THEN Step(r, "done", Err(401, "Invalid credentials"))
             ELSE IF found[1].password = << >> \/ reqs[r].password = NoVal
                  THEN Step(r, "rejected", << >>)
             ELSE IF ~BcryptCompare(reqs[r].password, found[1].password)
                  THEN Step(r, "done", Err(401, "Invalid credentials"))
             ELSE Signed(r, Ok([token |-> JwtSign(found[1]._id, now),
                                isNewUser |-> found[1].isNewUser]))
    /\ UNCHANGED <<users, purchases, otpStore, orders, now>>

---------------------------------------------------------------------------
(* POST /api/send-otp *)

\* otpStore[mobile] = { otp, expires: Date.now() + 5 * 60 * 1000 }, written
\* before the SMS dispatch is awaited.  by names the object: the request
\* that created it.
SendOtp(mobile, otp) ==
    /\ Accept([op |-> "send-otp", pc |-> "sms", mobile |-> mobile,
               otp |-> otp, res |-> << >>])
    /\ otpStore' = [otpStore EXCEPT ![mobile] =
                      <<[otp |-> otp, expires |-> now + OtpTtl, by |-> NextId]>>]
    /\ UNCHANGED <<users, purchases, orders, now>>

\* await twilioClient.messages.create(...) resolves.
SendOtpSms(r) ==
    /\ reqs[r].op = "send-otp" /\ reqs[r].pc = "sms"
    /\ reqs' = Step(r, "done", Ok([msg |-> "sent"]))
    /\ UNCHANGED <<users, purchases, otpStore, orders, now>>

---------------------------------------------------------------------------
(* POST /api/verify-otp *)

\* !rec || rec.expires < Date.now() || rec.otp !== otp
OtpInvalid(rec, otp, t) ==
    \/ rec = << >>
    \/ rec[1].expires < t
    \/ rec[1].otp # otp

\* The handler with delete otpStore[mobile] ahead of the check.
VerifyOtpDeletesFirst(mobile, otp) ==
    LET rec == otpStore[mobile]
        bad == OtpInvalid(rec, otp, now)
    IN  /\ Accept([op |-> "verify-otp", pc |-> IF bad THEN "done" ELSE "find",
                   mobile |-> mobile, otp |-> otp, rec |-> rec,
                   user |-> << >>, at |-> 0,
                   res |-> IF bad THEN Err(400, "Invalid OTP") ELSE << >>])
        /\ otpStore' = [otpStore EXCEPT ![mobile] = << >>]
        /\ UNCHANGED <<users, purchases, orders, now>>

\* The handler without delete otpStore[mobile].
VerifyOtpKeepsChallenge(mobile, otp) ==
    LET rec == otpStore[mobile]
        bad == OtpInvalid(rec, otp, now)
    IN  /\ Accept([op |-> "verify-otp", pc |-> IF bad THEN "done" ELSE "find",
                   mobile |-> mobile, otp |-> otp, rec |-> rec,
                   user |-> << >>, at |-> 0,
                   res |-> IF bad THEN Err(400, "Invalid OTP") ELSE << >>])
        /\ UNCHANGED <<users, purchases, otpStore, orders, now>>

\* The check and delete otpStore[mobile] run before the first await.
VerifyOtp(mobile, otp) ==
    LET rec == otpStore[mobile]
        bad == OtpInvalid(rec, otp, now)
    IN  /\ Accept([op |-> "verify-otp", pc |-> IF bad THEN "done" ELSE "find",
                   mobile |-> mobile, otp |-> otp, rec |-> rec,
                   user |-> << >>, at |-> 0,
                   res |-> IF bad THEN Err(400, "Invalid OTP") ELSE << >>])
        /\ otpStore' = IF bad THEN otpStore
                       ELSE [otpStore EXCEPT ![mobile] = << >>]
        /\ UNCHANGED <<users, purchases, orders, now>>

\* await User.findOne({ mobile }); a found user is answered at once, else a
\* new User({ mobile, isNewUser: true }) is built and its save awaited.
VerifyOtpFind(r) ==
    /\ reqs[r].op = "verify-otp" /\ reqs[r].pc = "find"
    /\ LET found == FindByMobile(reqs[r].mobile)
       IN  reqs' =
             IF found = << >>
             THEN [reqs EXCEPT ![r].pc = "save",
                               ![r].user = <<NewUser(r, NoVal, reqs[r].mobile, << >>)>>]
             ELSE [Signed(r, Ok([token |-> JwtSign(found[1]._id, now),
                                 isNewUser |-> found[1].isNewUser]))
                     EXCEPT ![r].user = found]
    /\ UNCHANGED <<users, purchases, otpStore, orders, now>>

VerifyOtpSave(r) ==
    /\ reqs[r].op = "verify-otp" /\ reqs[r].pc = "save"
    /\ users' = Append(users, reqs[r].user[1])
    /\ reqs' = Signed(r, Ok([token |-> JwtSign(reqs[r].user[1]._id, now),
                              isNewUser |-> reqs[r].user[1].isNewUser]))
    /\ UNCHANGED <<purchases, otpStore, orders, now>>

---------------------------------------------------------------------------
(* POST /api/create-order *)

\* The handler passing the amount of the body on as it is.
CreateOrderMinorUnits(hdr, amount) ==
    LET denied == AuthResponse(hdr, now)
    IN  /\ Accept([op |-> "create-order",
                   pc |-> IF denied # << >> THEN "done" ELSE "order",
                   hdr |-> hdr, amount |-> amount,
                   userId |-> IF denied # << >> THEN 0 ELSE AuthUserId(hdr),
                   order |-> [amount |-> amount, currency |-> "INR"],
                   res |-> denied])
        /\ UNCHANGED <<users, purchases, otpStore, orders, now>>

\* rzp.orders.create({ amount: amount * 100, currency: 'INR', ... })
CreateOrder(hdr, amount) ==
    LET denied == AuthResponse(hdr, now)
    IN  /\ Accept([op |-> "create-order",
                   pc |-> IF denied # << >> THEN "done" ELSE "order",
                   hdr |-> hdr, amount |-> amount,
                   userId |-> IF denied # << >> THEN 0 ELSE AuthUserId(hdr),
                   order |-> [amount |-> amount * 100, currency |-> "INR"],
                   res |-> denied])
        /\ UNCHANGED <<users, purchases, otpStore, orders, now>>

\* await rzp.orders.create(...) resolves with the order the gateway opened.
CreateOrderGateway(r) ==
    /\ reqs[r].op = "create-order" /\ reqs[r].pc = "order"
    /\ orders' = Append(orders, reqs[r].order)
    /\ reqs' = Step(r, "done", Ok([id |-> Len(orders) + 1]))
    /\ UNCHANGED <<users, purchases, otpStore, now>>

---------------------------------------------------------------------------
(* POST /api/verify-payment *)

VerifyPayment(hdr, orderId, paymentId, signature, items, total) ==
    LET denied == AuthResponse(hdr, now)
        res == IF denied # << >> THEN denied
               ELSE IF ~VerifyCallback(orderId, paymentId, signature)
                    THEN Err(400, "Bad sign")
                    ELSE << >>
        userId == IF denied # << >> THEN 0 ELSE AuthUserId(hdr)
    IN  /\ Accept([op |-> "verify-payment",
                   pc |-> IF res # << >> THEN "done" ELSE "save",
                   hdr |-> hdr, orderId |-> orderId, paymentId |-> paymentId,
                   signature |-> signature, userId |-> userId,
                   purchase |-> NewPurchase(NextId, userId, items, total, paymentId),
                   res |-> res])
        /\ UNCHANGED <<users, purchases, otpStore, orders, now>>

\* await purchase.save() resolves; User.updateOne is issued.
PurchaseSave(r) ==
    /\ reqs[r].op = "verify-payment" /\ reqs[r].pc = "save"
    /\ purchases' = Append(purchases, reqs[r].purchase)
    /\ reqs' = Step(r, "update", << >>)
    /\ UNCHANGED <<users, otpStore, orders, now>>

\* await User.updateOne({ _id: req.userId }, { isNewUser: false }) resolves.
UserUpdate(r) ==
    /\ reqs[r].op = "verify-payment" /\ reqs[r].pc = "update"
    /\ users' = UpdateOne(reqs[r].userId)
    /\ reqs' = Step(r, "done", Ok([ok |-> TRUE]))
    /\ UNCHANGED <<purchases, otpStore, orders, now>>

---------------------------------------------------------------------------
(* What a caller can send *)

TokenResponses ==
    {r \in DOMAIN reqs : /\ reqs[r].op \in {"register", "login", "verify-otp"}
                         /\ Answered(r)
                         /\ reqs[r].res[1].status = 200}

\* The tokens the server has handed out.
IssuedTokens == {reqs[r].res[1].token : r \in TokenResponses}

\* An issued token with its expiry pushed back, signed again without JWT_SECRET.
ForgedTokens ==
    {[t EXCEPT !.key = "guess", !.exp = Seconds(MaxTime) + 1] : t \in IssuedTokens}

Headers ==
    {<< >>, <<"Bearer ">>}
        \cup {<<"Bearer ", t>> : t \in IssuedTokens \cup ForgedTokens}

Ids == SeqsUpTo(IdChars, MaxIdLen)

\* The signature the gateway makes for a pair of ids.
GatewaySignature(o, p) == Hmac(RAZORPAY_KEY_SECRET, SignedMessage(o, p))

\* A signature made without the gateway's secret.
GuessedSignature(o, p) == Hmac("guess", SignedMessage(o, p))

Cart == [items |-> <<[bookId |-> 1, qty |-> 1, price |-> 5, title |-> "t"]>>,
         total |-> 5]

\* The items and total of a request body are the caller's: a cart whose total
\* is the sum of its lines, one with another total, one with a line of
\* quantity 0 and one with a negative price.
Carts ==
    {Cart,
     [items |-> <<[bookId |-> 1, qty |-> 2, price |-> 5, title |-> "t"]>>,
      total |-> 1],
     [items |-> <<[bookId |-> 1, qty |-> 0, price |-> 5, title |-> "t"]>>,
      total |-> 0],
     [items |-> <<[bookId |-> 1, qty |-> 1, price |-> -1, title |-> "t"]>>,
      total |-> -1]}

---------------------------------------------------------------------------
(* The whole server, each handler with few inputs *)

Next ==
    \/ Tick
    \/ Register("e1", "m1", "pw1")
    \/ Login("e1", "pw1")
    \/ SendOtp("m1", "100000")
    \/ VerifyOtp("m1", "100000")
    \/ \E h \in Headers : CreateOrder(h, 5)
    \/ \E h \in Headers :
          VerifyPayment(h, <<"a">>, <<"a">>, GatewaySignature(<<"a">>, <<"a">>),
                        Cart.items, Cart.total)
    \/ \E r \in DOMAIN reqs :
          \/ RegisterSave(r)
          \/ LoginFind(r)
          \/ SendOtpSms(r)
          \/ VerifyOtpFind(r)
          \/ VerifyOtpSave(r)
          \/ CreateOrderGateway(r)
          \/ PurchaseSave(r)
          \/ UserUpdate(r)
          \/ Reject(r)

Spec == Init /\ [][Next]_vars

---------------------------------------------------------------------------
(* Accounts and OTP login: register, login, send-otp, verify-otp *)

NextIdentity ==
    \/ Tick
    \/ \E e \in Emails \cup {NoVal}, m \in {"m1", NoVal}, p \in {"pw1", NoVal} :
          Register(e, m, p)
    \/ \E id \in Emails \cup {"m1"}, p \in Passwords : Login(id, p)
    \/ \E m \in Mobiles, c \in OtpCodes : SendOtp(m, c)
    \/ \E m \in Mobiles, c \in OtpCodes : VerifyOtp(m, c)
    \/ \E r \in DOMAIN reqs :
          \/ RegisterSave(r)
          \/ LoginFind(r)
          \/ SendOtpSms(r)
          \/ VerifyOtpFind(r)
          \/ VerifyOtpSave(r)
          \/ Reject(r)

SpecIdentity == Init /\ [][NextIdentity]_vars

\* Every handler on the inputs of Next, with both outcomes of a rejected await.
NextFailures ==
    \/ Next
    \/ \E r \in DOMAIN reqs : RejectForwarded(r)

SpecFailures == Init /\ [][NextFailures]_vars

---------------------------------------------------------------------------
(* Login to accounts made by register and by verify-otp, the store and    *)
(* the SMS provider answering every call                                  *)

NextLogin ==
    \/ Tick
    \/ Register("e1", NoVal, "pw1")
    \/ \E id \in Emails \cup {"m1"}, p \in Passwords : Login(id, p)
    \/ SendOtp("m1", "100000")
    \/ VerifyOtp("m1", "100000")
    \/ \E r \in DOMAIN reqs :
          \/ RegisterSave(r)
          \/ LoginFind(r)
          \/ SendOtpSms(r)
          \/ VerifyOtpFind(r)
          \/ VerifyOtpSave(r)

SpecLogin == Init /\ [][NextLogin]_vars

---------------------------------------------------------------------------
(* Checkout: create-order and verify-payment by registered users *)

NextCheckout ==
    \/ Tick
    \/ Register("e1", NoVal, "pw1")
    \/ \E h \in Headers : CreateOrder(h, 5)
    \/ \E h \in Headers, p \in {<<"a">>, <<"|">>},
          s \in {GatewaySignature(<<"a">>, <<"a">>),
                 GuessedSignature(<<"a">>, <<"a">>)} :
          VerifyPayment(h, <<"a">>, p, s, Cart.items, Cart.total)
    \/ \E r \in DOMAIN reqs :
          \/ RegisterSave(r)
          \/ CreateOrderGateway(r)
          \/ PurchaseSave(r)
          \/ UserUpdate(r)
          \/ Reject(r)

SpecCheckout == Init /\ [][NextCheckout]_vars

---------------------------------------------------------------------------
(* create-order with several amounts *)

\* Whole numbers of the major currency unit: req.body.amount
Amounts == {0, 1, 500}

NextOrder ==
    \/ Tick
    \/ Register("e1", NoVal, "pw1")
    \/ \E h \in Headers, a \in Amounts : CreateOrder(h, a)
    \/ \E r \in DOMAIN reqs :
          \/ RegisterSave(r)
          \/ CreateOrderGateway(r)
          \/ Reject(r)

SpecOrder == Init /\ [][NextOrder]_vars

---------------------------------------------------------------------------
(* verify-payment with every cart a caller can send *)

NextCart ==
    \/ Register("e1", NoVal, "pw1")
    \/ \E h \in Headers, c \in Carts :
          VerifyPayment(h, <<"a">>, <<"a">>, GatewaySignature(<<"a">>, <<"a">>),
                        c.items, c.total)
    \/ \E r \in DOMAIN reqs :
          \/ RegisterSave(r)
          \/ PurchaseSave(r)
          \/ UserUpdate(r)
          \/ Reject(r)

SpecCart == Init /\ [][NextCart]_vars

---------------------------------------------------------------------------
(* OTP login alone: send-otp and verify-otp *)

NextOtp ==
    \/ Tick
    \/ \E m \in Mobiles, c \in OtpCodes : SendOtp(m, c)
    \/ \E m \in Mobiles, c \in OtpCodes : VerifyOtp(m, c)
    \/ \E r \in DOMAIN reqs :
          \/ SendOtpSms(r)
          \/ VerifyOtpFind(r)
          \/ VerifyOtpSave(r)
          \/ Reject(r)

SpecOtp == Init /\ [][NextOtp]_vars

---------------------------------------------------------------------------
(* The callback check on every order id, payment id and signature: one    *)
(* registered user sends one verify-payment request.                      *)

AllSignatures == {ToHex(n) : n \in 0..(Pow(Len(HexDigits), DigestLen) - 1)}

NextSig ==
    \/ reqs = << >> /\ Register("e1", NoVal, "pw1")
    \/ \E t \in IssuedTokens, o \in Ids, p \in Ids, s \in AllSignatures :
          /\ Len(reqs) = 1
          /\ VerifyPayment(<<"Bearer ", t>>, o, p, s, Cart.items, Cart.total)
    \/ \E r \in DOMAIN reqs :
          \/ RegisterSave(r)
          \/ PurchaseSave(r)
          \/ UserUpdate(r)

SpecSig == Init /\ [][NextSig]_vars

---------------------------------------------------------------------------
(* Vocabulary of the properties *)

PaymentReqs == {r \in DOMAIN reqs : reqs[r].op = "verify-payment"}

\* The status of the response written for a request, 0 while there is none.
ResStatus(req) == IF req.res = << >> THEN 0 ELSE req.res[1].status

Status(r) == ResStatus(reqs[r])

\* The handler of an authenticated operation ran past the auth middleware.
Authenticated(r) == reqs[r].userId # 0

\* The verify-payment handler went on past the signature check.
SignatureAccepted(r) == Authenticated(r) /\ Status(r) # 400

PurchasesOf(paymentId) ==
    {i \in DOMAIN purchases : purchases[i].paymentId = paymentId}

UsersWithId(id) == {i \in DOMAIN users : users[i]._id = id}

---------------------------------------------------------------------------
(* C1 *)

\* C1: for every gateway payment id there is exactly one Purchase record,
\* whatever verify-payment requests carried it: no payment id is recorded
\* twice.
C1_OnePurchasePerPayment ==
    \A i \in DOMAIN purchases :
        Cardinality(PurchasesOf(purchases[i].paymentId)) = 1

---------------------------------------------------------------------------
(* C2 *)

\* The request that built purchase i carried the gateway's signature of its
\* own order id and payment id.
BuiltBySignedRequest(i) ==
    LET r == purchases[i]._id
    IN  /\ r \in PaymentReqs
        /\ purchases[i] = reqs[r].purchase
        /\ purchases[i].paymentId = reqs[r].paymentId
        /\ reqs[r].signature =
             Hmac(RAZORPAY_KEY_SECRET,
                  reqs[r].orderId \o <<"|">> \o reqs[r].paymentId)

\* An authenticated request whose signature is not the gateway's is answered
\* 400 'Bad sign' and has no purchase.
BadSignRejected(r) ==
    (/\ Authenticated(r)
     /\ reqs[r].signature #
          Hmac(RAZORPAY_KEY_SECRET, reqs[r].orderId \o <<"|">> \o reqs[r].paymentId))
    => /\ reqs[r].pc = "done"
       /\ reqs[r].res = Err(400, "Bad sign")
       /\ \A i \in DOMAIN purchases : purchases[i]._id # r

\* The step in which a request is answered 'Bad sign' changes no record.
BadSignChangesNothing ==
    \A r \in DOMAIN reqs' :
        (/\ r \notin DOMAIN reqs
         /\ reqs'[r].res = Err(400, "Bad sign"))
        => /\ purchases' = purchases
           /\ users' = users

\* C2: every Purchase was created by a verify-payment request whose signature
\* equalled the HMAC of orderId|paymentId under the gateway secret, and a
\* request whose signature does not match is answered 400 'Bad sign' and
\* leaves the Purchase records and every isNewUser flag unchanged.
C2_PurchaseOnlyAfterVerifiedSignature ==
    /\ [](/\ \A i \in DOMAIN purchases : BuiltBySignedRequest(i)
          /\ \A r \in PaymentReqs : BadSignRejected(r))
    /\ [][BadSignChangesNothing]_vars

\* A purchase is stored and a request with another signature was turned down.
C2_Witness ==
    /\ purchases # << >>
    /\ \E r \in PaymentReqs : Authenticated(r) /\ reqs[r].res = Err(400, "Bad sign")

---------------------------------------------------------------------------
(* C3 *)

\* seq with one of its characters replaced by another character of alphabet
Mutations(seq, alphabet) ==
    UNION {{[seq EXCEPT ![i] = c] : c \in alphabet \ {seq[i]}} : i \in DOMAIN seq}

\* C3: the callback check accepts iff the signature is the HMAC of
\* orderId|paymentId under the gateway secret; replacing one character of the
\* signature, of the order id or of the payment id of an accepted request
\* makes the check reject; a rejection is the 400 response, never a throw.
C3_CallbackCheck ==
    \A r \in PaymentReqs :
        Authenticated(r) =>
          LET o == reqs[r].orderId
              p == reqs[r].paymentId
              s == reqs[r].signature
          IN  /\ SignatureAccepted(r)
                   <=> s = Hmac(RAZORPAY_KEY_SECRET, o \o <<"|">> \o p)
              /\ ~SignatureAccepted(r)
                   => reqs[r].pc = "done" /\ reqs[r].res = Err(400, "Bad sign")
              /\ SignatureAccepted(r)
                   => /\ \A s2 \in Mutations(s, Range(HexDigits)) :
                            ~VerifyCallback(o, p, s2)
                      /\ \A o2 \in Mutations(o, IdChars) : ~VerifyCallback(o2, p, s)
                      /\ \A p2 \in Mutations(p, IdChars) : ~VerifyCallback(o, p2, s)

\* An accepted request whose order id and payment id can both be mutated.
C3_Witness ==
    \E r \in PaymentReqs :
        /\ SignatureAccepted(r)
        /\ reqs[r].orderId # << >> /\ reqs[r].paymentId # << >>

---------------------------------------------------------------------------
(* C4 *)

\* C4: no state holds a Purchase owned by a user whose isNewUser is still
\* true: the Purchase and the flag change as one unit.
C4_PurchaseAndFlagAtomic ==
    \A i \in DOMAIN purchases :
        \A u \in UsersWithId(purchases[i].user) : ~users[u].isNewUser

---------------------------------------------------------------------------
(* C5 *)

\* C5: no two User records share an email, and no two share a mobile.
C5_UniqueEmailAndMobile ==
    \A i, j \in DOMAIN users :
        i # j =>
          /\ users[i].email # NoVal => users[i].email # users[j].email
          /\ users[i].mobile # NoVal => users[i].mobile # users[j].mobile

---------------------------------------------------------------------------
(* C6 *)

RegisterReqs == {r \in DOMAIN reqs : reqs[r].op = "register"}

\* User j holds the email or the mobile of document u.
Holds(j, u) ==
    \/ u.email # NoVal /\ users[j].email = u.email
    \/ u.mobile # NoVal /\ users[j].mobile = u.mobile

\* C6: a register request whose email or mobile an existing User holds
\* fails and creates no User record: the User record of every register
\* request is preceded in the store by no User holding its email or mobile.
C6_RegisterConflictRejected ==
    \A r \in RegisterReqs :
        \A i \in UsersWithId(reqs[r].user._id) :
            \A j \in 1..(i - 1) : ~Holds(j, reqs[r].user)

---------------------------------------------------------------------------
(* C7 *)

\* The verify-otp request that arrives in this step, if one does.
VerifyOtpCall(n) ==
    /\ n = Len(reqs) + 1
    /\ n \in DOMAIN reqs'
    /\ reqs'[n].op = "verify-otp"

\* C7: verify-otp passes iff a challenge is stored for the mobile (issued and
\* not consumed), the code is that of the most recent send-otp, and the time
\* is strictly before issuance + 5 minutes, expires being issuance + 5 minutes.
C7_VerifyOtpIffLiveChallenge ==
    [][\A n \in DOMAIN reqs' :
         VerifyOtpCall(n) =>
           LET rec == otpStore[reqs'[n].mobile]
           IN  (reqs'[n].pc = "find")
                 <=> /\ rec # << >>
                     /\ reqs'[n].otp = rec[1].otp
                     /\ now < (rec[1].expires - OtpTtl) + OtpTtl]_vars

---------------------------------------------------------------------------
(* C8 *)

VerifyOtpReqs == {r \in DOMAIN reqs : reqs[r].op = "verify-otp"}

\* The verify-otp request passed the check and consumed the challenge rec.
OtpAccepted(r) == reqs[r].op = "verify-otp" /\ Status(r) # 400

\* C8: a challenge is single-use: of two accepted verify-otp requests for one
\* mobile the later one consumed a challenge that a send-otp wrote after the
\* earlier one, so no challenge is accepted twice, in sequence or concurrently.
C8_ChallengeSingleUse ==
    \A r1, r2 \in VerifyOtpReqs :
        (/\ r1 < r2
         /\ OtpAccepted(r1) /\ OtpAccepted(r2)
         /\ reqs[r1].mobile = reqs[r2].mobile)
        => /\ reqs[r2].rec[1].by > r1
           /\ reqs[r2].rec[1].by # reqs[r1].rec[1].by

\* An accepted verify-otp, then the same code for the same mobile again with
\* no send-otp in between: turned down.
C8_Witness ==
    \E r1, r2 \in VerifyOtpReqs :
        /\ r2 = r1 + 1
        /\ OtpAccepted(r1) /\ ~OtpAccepted(r2)
        /\ reqs[r1].mobile = reqs[r2].mobile
        /\ reqs[r1].otp = reqs[r2].otp

---------------------------------------------------------------------------
(* C9 *)

\* The request of an authenticated operation that arrives in this step.
AuthCall(n) ==
    /\ n = Len(reqs) + 1
    /\ n \in DOMAIN reqs'
    /\ reqs'[n].op \in {"create-order", "verify-payment"}

\* The user for whom request q signed its token.
Subject(q) ==
    IF reqs[q].op = "register" THEN reqs[q].user._id
    ELSE IF reqs[q].op = "verify-otp" THEN reqs[q].user[1]._id
    ELSE FindByEmailOrMobile(reqs[q].id)[1]._id

\* The time of a token: 7 days, in ticks.
TokenLife == TokenTtl * TicksPerSec

\* C9 as stated: a token issued for u at time t is accepted and resolves to u
\* at every time strictly before t + 7 days, and is rejected at every time
\* after t + 7 days, whatever happened in between.
C9_TokenValidSevenDays ==
    [][\A n \in DOMAIN reqs' :
         AuthCall(n) =>
           \A q \in TokenResponses :
               reqs'[n].hdr = <<"Bearer ", reqs[q].res[1].token>> =>
                 /\ now < reqs[q].at + TokenLife =>
                       reqs'[n].userId = Subject(q)
                 /\ now > reqs[q].at + TokenLife =>
                       reqs'[n].res = Err(401, "Bad token")]_vars

\* C9 amended: with the time of issue and the time of the check both cut to
\* whole seconds, a token issued for u at t is accepted and resolves to u at
\* every time strictly before t + 7 days and rejected from t + 7 days on,
\* whatever happened in between.
C9_TokenValidSevenDaysInSeconds ==
    [][\A n \in DOMAIN reqs' :
         AuthCall(n) =>
           \A q \in TokenResponses :
               reqs'[n].hdr = <<"Bearer ", reqs[q].res[1].token>> =>
                 /\ Seconds(now) < Seconds(reqs[q].at) + TokenTtl =>
                       reqs'[n].userId = Subject(q)
                 /\ Seconds(now) >= Seconds(reqs[q].at) + TokenTtl =>
                       reqs'[n].res = Err(401, "Bad token")]_vars

AuthReqs == {r \in DOMAIN reqs : reqs[r].op \in {"create-order", "verify-payment"}}

\* One issued token was accepted by one request and, expired, turned down by
\* another.
C9_Witness ==
    \E r1, r2 \in AuthReqs :
        /\ reqs[r1].hdr = reqs[r2].hdr
        /\ Len(reqs[r1].hdr) = 2
        /\ reqs[r1].hdr[2] \in IssuedTokens
        /\ Authenticated(r1)
        /\ reqs[r2].res = Err(401, "Bad token")

---------------------------------------------------------------------------
(* C10 *)

\* No header, no token in it, a token not signed with JWT_SECRET, or an
\* expired one.
BadCredential(hdr, t) ==
    \/ hdr = << >>
    \/ Len(hdr) = 1
    \/ hdr[2].key # JWT_SECRET
    \/ Seconds(t) >= hdr[2].exp

\* A request with a bad credential is answered 401 at once and changes
\* nothing; any other one runs its handler as the token's subject.
AuthGuards ==
    \A n \in DOMAIN reqs' :
        AuthCall(n) =>
          IF BadCredential(reqs'[n].hdr, now)
          THEN /\ ResStatus(reqs'[n]) = 401
               /\ reqs'[n].pc = "done"
               /\ UNCHANGED <<users, purchases, orders>>
          ELSE /\ ResStatus(reqs'[n]) # 401
               /\ reqs'[n].userId = reqs'[n].hdr[2].id

\* A request answered 401 takes no further step.
DeniedStays ==
    \A r \in AuthReqs : Status(r) = 401 => reqs'[r] = reqs[r]

\* No purchase was built by a request answered 401, and every gateway order
\* was opened by a create-order request that passed the auth check.
DeniedDidNothing ==
    /\ \A r \in AuthReqs :
          Status(r) = 401 =>
            /\ ~Authenticated(r)
            /\ \A i \in DOMAIN purchases : purchases[i]._id # r
    /\ Len(orders) =
         Cardinality({r \in AuthReqs : /\ reqs[r].op = "create-order"
                                       /\ Authenticated(r)
                                       /\ Status(r) = 200})

\* C10: create-order and verify-payment answer 401 to a request with no
\* credential header or with a token that fails verification, and their
\* handler never runs: no gateway order, no Purchase, no User change; with a
\* token that verifies the handler runs with the token's subject as user id.
C10_AuthGuardsHandlers ==
    /\ []DeniedDidNothing
    /\ [][AuthGuards /\ DeniedStays]_vars

\* A request with a forged or expired token was answered 401 and another ran
\* its handler to the end.
C10_Witness ==
    \E r1, r2 \in AuthReqs :
        /\ reqs[r1].res = Err(401, "Bad token")
        /\ Authenticated(r2) /\ Status(r2) = 200

---------------------------------------------------------------------------
(* C11 *)

\* A request one of whose awaited collaborator calls failed: the SMS dispatch,
\* the gateway's order creation, a store read or a store write.
CallFailed(r) == reqs[r].pc = "rejected"

\* C11: every request whose collaborator call failed is answered, with an
\* error status: no failure leaves the request without a response.  (A
\* request is never answered twice and a failed call is never made again:
\* no action leaves "done" or "rejected".)
C11_FailureAnswered ==
    \A r \in DOMAIN reqs : CallFailed(r) => Status(r) >= 400

---------------------------------------------------------------------------
(* C12 *)

SendOtpReqs == {r \in DOMAIN reqs : reqs[r].op = "send-otp"}

\* The SMS dispatch of send-otp request s failed.
SmsFailed(s) == s \in SendOtpReqs /\ reqs[s].pc = "rejected"

\* The challenge of send-otp request s is stored, unless a newer send-otp for
\* the mobile replaced it or an accepted verify-otp consumed it.
ChallengeKept(s) ==
    LET m == reqs[s].mobile
    IN  \/ /\ otpStore[m] # << >>
           /\ otpStore[m][1].by = s
           /\ otpStore[m][1].otp = reqs[s].otp
        \/ \E r \in SendOtpReqs : r > s /\ reqs[r].mobile = m
        \/ \E r \in VerifyOtpReqs :
              /\ r > s /\ reqs[r].mobile = m
              /\ OtpAccepted(r) /\ reqs[r].rec[1].by = s

\* A verify-otp that arrives for the stored challenge of a send-otp whose
\* dispatch failed, with its code and before its expiry, passes the check.
FailedDispatchCodeAccepted ==
    \A n \in DOMAIN reqs' :
        VerifyOtpCall(n) =>
          LET rec == otpStore[reqs'[n].mobile]
          IN  (/\ rec # << >>
               /\ SmsFailed(rec[1].by)
               /\ reqs'[n].otp = reqs[rec[1].by].otp
               /\ now < rec[1].expires)
              => reqs'[n].pc = "find"

\* C12: when the SMS dispatch of a send-otp fails, the challenge the request
\* wrote stays stored, and a following verify-otp for the mobile with that
\* code, before issuance + 5 minutes and before any newer send-otp, passes.
C12_FailedDispatchKeepsChallenge ==
    /\ [](\A s \in SendOtpReqs : SmsFailed(s) => ChallengeKept(s))
    /\ [][FailedDispatchCodeAccepted]_vars

\* A send-otp whose dispatch failed, and a later verify-otp that was accepted
\* on its challenge.
C12_Witness ==
    \E s \in SendOtpReqs, n \in VerifyOtpReqs :
        /\ SmsFailed(s)
        /\ n > s
        /\ OtpAccepted(n)
        /\ reqs[n].rec[1].by = s

---------------------------------------------------------------------------
(* C13 *)

RECURSIVE LinesTotal(_)
\* The sum over the lines of quantity times unit price.
LinesTotal(items) ==
    IF items = << >> THEN 0
    ELSE items[1].qty * items[1].price + LinesTotal(Tail(items))

\* C13: every Purchase record has a total equal to the sum over its lines of
\* quantity times unit price, and every line has quantity >= 1 and
\* price >= 0, whatever items and total the caller sent.
C13_PurchaseTotalIsLineSum ==
    \A i \in DOMAIN purchases :
        /\ purchases[i].total = LinesTotal(purchases[i].items)
        /\ \A k \in DOMAIN purchases[i].items :
              /\ purchases[i].items[k].qty >= 1
              /\ purchases[i].items[k].price >= 0

---------------------------------------------------------------------------
(* C14 *)

LoginReqs == {r \in DOMAIN reqs : reqs[r].op = "login"}

\* The store has answered the lookup of login request r in this step.
LoginLookedUp(r) ==
    /\ r \in LoginReqs
    /\ reqs[r].pc = "find"
    /\ reqs'[r].pc # "find"

\* C14: a login request is answered with a token only when a User matches the
\* identifier by email or mobile and the password verifies against that
\* User's stored hash; in every other case (unknown identifier, wrong
\* password, account without a password hash) it is answered 401 'Invalid
\* credentials' and gets no token.
C14_LoginTokenOrInvalidCredentials ==
    [][\A r \in DOMAIN reqs :
         LoginLookedUp(r) =>
           LET found == FindByEmailOrMobile(reqs[r].id)
           IN  IF /\ found # << >>
                  /\ found[1].password = BcryptHash(reqs[r].password)
               THEN reqs'[r].res = Ok([token |-> JwtSign(found[1]._id, now),
                                       isNewUser |-> found[1].isNewUser])
               ELSE /\ reqs'[r].pc = "done"
                    /\ reqs'[r].res = Err(401, "Invalid credentials")]_vars

---------------------------------------------------------------------------
(* C15 *)

\* C15: every User record has at least one of email and mobile set, whatever
\* fields the register or verify-otp request that made it supplied or left out.
C15_UserHasEmailOrMobile ==
    \A i \in DOMAIN users :
        users[i].email # NoVal \/ users[i].mobile # NoVal

---------------------------------------------------------------------------
(* C16 *)

\* C16: once a verify-payment request of user u has succeeded, the purchase
\* references of u hold the Purchase it created, so that every Purchase u
\* has paid for is referenced from u's list.
C16_PurchaseReferencedFromUser ==
    \A r \in PaymentReqs :
        Status(r) = 200 =>
          \A i \in UsersWithId(reqs[r].userId) :
              reqs[r].purchase._id \in Range(users[i].purchases)

---------------------------------------------------------------------------
(* C17 *)

CreateOrderReqs == {r \in DOMAIN reqs : reqs[r].op = "create-order"}

\* The gateway order that answered create-order request r.
OrderOf(r) == orders[reqs[r].res[1].id]

\* Every gateway order is the one of an answered create-order request.
OrdersAnswered ==
    \A i \in DOMAIN orders :
        \E r \in CreateOrderReqs : Status(r) = 200 /\ reqs[r].res[1].id = i

\* C17 as stated: the amount of the order opened at the gateway is the
\* amount the caller passed, taken as minor currency units, and its currency
\* is INR.
C17_OrderAmountAsPassed ==
    /\ OrdersAnswered
    /\ \A r \in CreateOrderReqs :
          Status(r) = 200 =>
            /\ OrderOf(r).amount = reqs[r].amount
            /\ OrderOf(r).currency = "INR"

\* C17 amended: the amount of the order opened at the gateway is 100 times
\* the whole-number amount the caller passed, which is taken as major
\* currency units and converted to minor units, and its currency is INR.
C17_OrderAmountTimesHundred ==
    /\ OrdersAnswered
    /\ \A r \in CreateOrderReqs :
          Status(r) = 200 =>
            /\ OrderOf(r).amount = 100 * reqs[r].amount
            /\ OrderOf(r).currency = "INR"

\* An order was opened for a caller who passed 500.
C17_Witness ==
    \E r \in CreateOrderReqs :
        /\ Status(r) = 200
        /\ reqs[r].amount = 500
        /\ OrderOf(r).amount = 50000

---------------------------------------------------------------------------
(* C18 *)

HasBar(id) == \E i \in DOMAIN id : id[i] = "|"

\* The pairs of ids, out of candidates, for which signature is the one the
\* gateway makes.
SignedPairs(signature, candidates) ==
    {pair \in candidates \X candidates :
        signature = GatewaySignature(pair[1], pair[2])}

\* The signature accepted in request r was made by the gateway for no pair
\* of candidates but the pair that r carries, and the Purchase of r has the
\* payment id of that pair.
BindsPair(r, candidates) ==
    \A pair \in SignedPairs(reqs[r].signature, candidates) :
        /\ pair = <<reqs[r].orderId, reqs[r].paymentId>>
        /\ reqs[r].purchase.paymentId = pair[2]

\* C18 as stated: for order ids and payment ids that may contain '|', a
\* signature the gateway made for one pair is never accepted in a request
\* that carries another pair, so every Purchase has a payment id that the
\* gateway signed.
C18_SignatureBindsPair ==
    \A r \in PaymentReqs : SignatureAccepted(r) => BindsPair(r, Ids)

\* C18 amended: a signature the gateway made for a pair of ids neither of
\* which contains '|' is never accepted in a request that carries another
\* pair, whatever characters the ids of the request contain.
C18_SignatureBindsPairWithoutBar ==
    \A r \in PaymentReqs :
        SignatureAccepted(r) => BindsPair(r, {id \in Ids : ~HasBar(id)})

\* The gateway's signature of a pair without '|' was turned down in a request
\* that carries another pair, one with a '|' in it.
C18_Witness ==
    \E r \in PaymentReqs :
        /\ Authenticated(r)
        /\ reqs[r].res = Err(400, "Bad sign")
        /\ HasBar(reqs[r].orderId) \/ HasBar(reqs[r].paymentId)
        /\ \E pair \in SignedPairs(reqs[r].signature, {id \in Ids : ~HasBar(id)}) :
              pair[1] # << >> /\ pair[2] # << >>

---------------------------------------------------------------------------
(* C19 *)

\* In this step the flag update of a verify-payment request resolves, the
\* request having passed the signature check with a token whose subject is
\* user id.
PaidBy(id) ==
    \E r \in PaymentReqs :
        /\ reqs[r].pc = "update" /\ reqs'[r].pc = "done"
        /\ VerifyCallback(reqs[r].orderId, reqs[r].paymentId, reqs[r].signature)
        /\ reqs[r].hdr[2].key = JWT_SECRET
        /\ reqs[r].hdr[2].id = id
        /\ reqs[r].userId = id

\* In this step the save of a register or verify-otp request resolves.
CreatedBy(u) ==
    \E r \in DOMAIN reqs :
        /\ reqs[r].op \in {"register", "verify-otp"}
        /\ reqs[r].pc = "save" /\ reqs'[r].pc = "done"
        /\ u._id = r

FlagMonotone ==
    /\ Len(users') >= Len(users)
    /\ \A i \in DOMAIN users' :
          IF i \notin DOMAIN users
          THEN users'[i].isNewUser /\ CreatedBy(users'[i])
          ELSE /\ users'[i]._id = users[i]._id
               /\ users'[i].isNewUser # users[i].isNewUser
                    => /\ users[i].isNewUser /\ ~users'[i].isNewUser
                       /\ PaidBy(users[i]._id)

\* C19: isNewUser is true when register or verify-otp creates the User, it
\* changes only from true to false, only in a signature-verified
\* verify-payment made with a token whose subject is that User, and no
\* operation changes the flag of another User.
C19_IsNewUserMonotone == [][FlagMonotone]_vars

\* One User has paid and has the flag false, another still has it true.
C19_Witness ==
    \E i, j \in DOMAIN users :
        /\ ~users[i].isNewUser
        /\ users[j].isNewUser
        /\ \E r \in PaymentReqs : Status(r) = 200 /\ reqs[r].userId = users[i]._id

---------------------------------------------------------------------------
(* C20 *)

\* The entries of the OTP store of every mobile but m stay as they are.
OthersKept(m) == \A m2 \in Mobiles \ {m} : otpStore'[m2] = otpStore[m2]

\* A verify-otp request that arrives with no challenge stored for its mobile,
\* after the challenge has expired or with another code than the stored one
\* is answered 400 and changes neither the OTP store nor a User record; one
\* that passes changes the entry of its mobile only.
VerifyOtpFrame ==
    \A n \in DOMAIN reqs' :
        VerifyOtpCall(n) =>
          LET rec == otpStore[reqs'[n].mobile]
          IN  IF \/ rec = << >>
                 \/ now > rec[1].expires
                 \/ reqs'[n].otp # rec[1].otp
              THEN /\ reqs'[n].res = Err(400, "Invalid OTP")
                   /\ otpStore' = otpStore
                   /\ users' = users
              ELSE reqs'[n].pc = "find" => OthersKept(reqs'[n].mobile)

\* A send-otp request changes the entry of its mobile only.
SendOtpFrame ==
    \A n \in DOMAIN reqs' :
        (n \notin DOMAIN reqs /\ reqs'[n].op = "send-otp")
        => /\ OthersKept(reqs'[n].mobile)
           /\ users' = users

\* The later steps of a handler leave the OTP store alone.
AwaitFrame == Len(reqs') = Len(reqs) => otpStore' = otpStore

\* C20: a verify-otp that fails (no challenge, expired challenge, wrong code)
\* leaves the OTP store and the User records unchanged, so the challenge
\* stays good for a further attempt; a send-otp or a successful verify-otp
\* for mobile m changes the OTP entry of m only.
C20_OtpFrame == [][VerifyOtpFrame /\ SendOtpFrame /\ AwaitFrame]_vars

\* A verify-otp with a wrong code was turned down and a later one with the
\* right code was accepted on the same challenge.
C20_Witness ==
    \E r1, r2 \in VerifyOtpReqs :
        /\ r1 < r2
        /\ reqs[r1].mobile = reqs[r2].mobile
        /\ reqs[r1].rec # << >>
        /\ reqs[r1].res = Err(400, "Invalid OTP")
        /\ OtpAccepted(r2)
        /\ reqs[r2].rec = reqs[r1].rec

=============================================================================
